---- MODULE Spec2Model ----
(***************************************************************************)
(* State-machine model of the viralcn content assistant:                   *)
(*   - App (src/App.tsx): active tab, fragments, selection, settings;      *)
(*   - ThoughtTab / SettingsTab (src/components/ThoughtTab.tsx);           *)
(*   - GenerationTab (src/unnamed/part_000): handleGenerate, handleReAudit;*)
(*   - the service module (src/unnamed/part_001): generateTagsForThought,  *)
(*     auditCopyContent, generateImageForCopy, generateViralCopy.          *)
(* Every provider call is a suspend point: a handler is modelled as one    *)
(* action per stretch of code between two awaits, and the provider's       *)
(* answer (rejection, or a response with some payload) is the input of the *)
(* action that resumes the handler.                                        *)
(* Non-ASCII literals of the source are transliterated:                    *)
(*   "FWCOMMA" is the full-width comma U+FF0C,                             *)
(*   TagSentinel is the label "tong yong" (generic),                       *)
(*   TagPlaceholder is the label "chu li zhong..." (processing),           *)
(*   AuditFailedText is the suggestion "fen xi shi bai" (analysis failed). *)
(***************************************************************************)
EXTENDS Integers, Sequences, FiniteSets, TLC

VARIABLES
    activeTab,           \* App: 'capture' | 'generate' | 'settings'
    thoughts,            \* App: Thought[], newest first
    selectedThoughtIds,  \* App: string[]
    globalSettings,      \* App: GlobalSettings
    tagTasks,            \* handleAddThought invocations suspended in generateTagsForThought
    nextId,              \* supply of crypto.randomUUID() values for fragments
    viewState,           \* GenerationTab: 'config' | 'result'
    platform,            \* GenerationTab: PlatformType
    refUrl,              \* GenerationTab
    withImage,           \* GenerationTab
    previewContent,      \* GenerationTab: base draft, a text
    isSmartOrganizing,   \* GenerationTab
    isExtracting,        \* GenerationTab
    isGenerating,        \* GenerationTab
    isAuditing,          \* GenerationTab
    currentCopy,         \* GenerationTab: GeneratedCopy | null, as <<>> or <<record>>
    editedResult,        \* GenerationTab
    gen,                 \* handleGenerate invocations suspended in a provider call
    reaud,               \* handleReAudit invocations suspended in the audit call
    aux,                 \* handleSmartOrganize invocations suspended in their provider call
    lastAlert,           \* the message of the last alert() shown
    lastAudit,           \* the last answer of the audit provider and what auditCopyContent made of it
    lastExtract,         \* the last answer to the fetch of extractContentFromUrl and what it made of it
    lastImage,           \* the last answer to a call of generateImageForCopy and what it made of it
    lastText,            \* the last answer to a text call and what generateText / generateViralCopy made of it
    lastTagged,          \* the fragment id of the last tagging task settled, and whether it was still listed
    nEvents              \* number of user events so far (bounds the exploration)

appVars == <<activeTab, thoughts, selectedThoughtIds, globalSettings>>
tagVars == <<tagTasks, nextId>>
draftVars == <<previewContent, isSmartOrganizing, isExtracting>>
formVars == <<platform, refUrl, withImage, draftVars>>
tabVars == <<viewState, isGenerating, isAuditing, currentCopy, editedResult>>
taskVars == <<gen, reaud, aux>>
outVars == <<lastAlert, lastAudit, lastTagged, lastText, lastImage, lastExtract>>
vars == <<appVars, tagVars, formVars, tabVars, taskVars, outVars, nEvents>>

----------------------------------------------------------------------------
(* Bounds of the exploration *)

MaxEvents == 6
MaxRespLen == 1
MaxThoughts == 2

\* sample values of Date.now()
Times == {1000, 2000}

----------------------------------------------------------------------------
(* src/types.ts *)

XIAOHONGSHU == "XIAOHONGSHU"
WECHAT_MOMENTS == "WECHAT_MOMENTS"
DOUYIN == "DOUYIN"
TIKTOK == "TIKTOK"
INSTAGRAM == "INSTAGRAM"
X == "X"
PlatformType == {XIAOHONGSHU, WECHAT_MOMENTS, DOUYIN, TIKTOK, INSTAGRAM, X}

NicheOTHER == "OTHER"
NicheFOOD == "FOOD"

\* an optional value that is absent (undefined)
Undefined == <<>>
Some(v) == <<v>>

ScoreFields == {"headline", "quality", "emotion", "trending", "viralPotential", "overall"}
ListFields == {"suggestions", "pros", "sensitiveWords"}
AuditFields == ScoreFields \cup ListFields

\* A JavaScript object read as an AuditScore: the set of property names it
\* has, and the value of each property it has (0 / <<>> stand in for the
\* properties it lacks, so that equal objects are equal values).
JsObject(keys, score, suggestions, pros, sensitiveWords) ==
    [keys |-> keys \cap AuditFields,
     num |-> [f \in ScoreFields |-> IF f \in keys THEN score ELSE 0],
     suggestions |-> IF "suggestions" \in keys THEN suggestions ELSE <<>>,
     pros |-> IF "pros" \in keys THEN pros ELSE <<>>,
     sensitiveWords |-> IF "sensitiveWords" \in keys THEN sensitiveWords ELSE <<>>]

EmptyObject == JsObject({}, 0, <<>>, <<>>, <<>>)

----------------------------------------------------------------------------
(* Provider responses.  A call either rejects (ok = FALSE) or resolves with *)
(* a response whose text payload may be absent.                             *)

Rejected == [ok |-> FALSE, text |-> Undefined]
Resolved(text) == [ok |-> TRUE, text |-> text]

\* text payloads of the copy-generation and prompt-derivation calls
CopyTexts == {Undefined, Some(""), Some("copyA")}

\* response.text || ""
TextOrEmpty(text) == IF text = Undefined THEN "" ELSE text[1]

\* text payloads of the audit call: the empty string, text that is not JSON,
\* or the JSON text of an object
JsonText(obj) == [kind |-> "json", value |-> obj]
EmptyText == [kind |-> "empty", value |-> EmptyObject]
MalformedText == [kind |-> "malformed", value |-> EmptyObject]

AuditFailedText == "analysis failed"
GoodAudit == JsObject(AuditFields, 85, <<"s1", "s2", "s3">>, <<"p1", "p2", "p3">>, <<>>)
PartialAudit == JsObject(AuditFields \ {"pros"}, 85, <<"s1">>, <<>>, <<"w">>)

AuditResponses ==
    {Rejected, Resolved(Undefined), Resolved(Some(EmptyText)), Resolved(Some(MalformedText)),
     Resolved(Some(JsonText(GoodAudit))), Resolved(Some(JsonText(PartialAudit)))}

\* a computation that returns a value or throws
Return(v) == [threw |-> FALSE, value |-> v]
Throw(v) == [threw |-> TRUE, value |-> v]

\* JSON.parse(response.text || "{}")
JsonParse(text) ==
    LET t == IF text = Undefined \/ text[1].kind = "empty" THEN JsonText(EmptyObject) ELSE text[1]
    IN  IF t.kind = "malformed" THEN Throw(EmptyObject) ELSE Return(t.value)

FallbackAudit == JsObject(AuditFields, 0, <<AuditFailedText>>, <<>>, <<>>)

\* auditCopyContent without its try/catch
auditCopyContentNoCatch(resp) ==
    IF ~resp.ok THEN Throw(EmptyObject) ELSE JsonParse(resp.text)

\* auditCopyContent whose catch returns an object without suggestions
auditCopyContentBadFallback(resp) ==
    LET r == auditCopyContentNoCatch(resp)
    IN  IF r.threw THEN Return(JsObject(AuditFields \ {"suggestions"}, 0, <<>>, <<>>, <<>>)) ELSE r

\* auditCopyContent: the outcome of the call for the provider's answer resp
auditCopyContent(resp) ==
    IF ~resp.ok
    THEN Return(FallbackAudit)
    ELSE LET parsed == JsonParse(resp.text)
         IN  IF parsed.threw THEN Return(FallbackAudit) ELSE Return(parsed.value)

----------------------------------------------------------------------------
(* generateTagsForThought.  A text is a sequence of characters. *)

Alphabet == {"a", " ", ",", "FWCOMMA"}

\* the answers of generateText explored: every text of at most MaxRespLen
\* characters, one with two labels and one with four
TwoLabels == <<"a", "FWCOMMA", " ", "a">>
FourLabels == <<"a", ",", "a", ",", "a", ",", "a">>
RespTexts == UNION {[1..n -> Alphabet] : n \in 0..MaxRespLen} \cup {TwoLabels, FourLabels}
TagResponses == {Throw(<<>>)} \cup {Return(t) : t \in RespTexts}

TagSentinel == <<"tong", "yong">>
TagPlaceholder == <<"chu", "li", "zhong", ".", ".", ".">>

\* result.replace(/FWCOMMA/g, ',')
ReplaceAll(s, from, to) == [i \in DOMAIN s |-> IF s[i] = from THEN to ELSE s[i]]

RECURSIVE Split(_, _)
\* s.split(sep): the pieces of s between the separators, empty ones included
Split(s, sep) ==
    IF \A i \in DOMAIN s : s[i] # sep
    THEN <<s>>
    ELSE LET i == CHOOSE k \in DOMAIN s : s[k] = sep /\ \A j \in 1..(k - 1) : s[j] # sep
         IN  <<SubSeq(s, 1, i - 1)>> \o Split(SubSeq(s, i + 1, Len(s)), sep)

RECURSIVE Trim(_)
\* t.trim()
Trim(s) ==
    IF s = <<>> THEN s
    ELSE IF Head(s) = " " THEN Trim(Tail(s))
    ELSE IF s[Len(s)] = " " THEN Trim(SubSeq(s, 1, Len(s) - 1))
    ELSE s

\* tags.slice(0, n)
Slice(s, n) == SubSeq(s, 1, IF Len(s) < n THEN Len(s) ELSE n)

\* the labels of a text: split on commas of both kinds, trim, drop the empty
\* ones
LabelsOf(text) ==
    LET pieces == Split(ReplaceAll(text, "FWCOMMA", ","), ",")
        trimmed == [i \in DOMAIN pieces |-> Trim(pieces[i])]
    IN  SelectSeq(trimmed, LAMBDA t : Len(t) > 0)

\* generateTagsForThought: result is the outcome of generateText
generateTagsForThought(result) ==
    IF result.threw THEN <<TagSentinel>> ELSE Slice(LabelsOf(result.value), 3)

----------------------------------------------------------------------------
(* generateViralCopy: the prompt it assembles and the call it makes *)

\* baseContent && baseContent.trim(): a draft that is not blank
HasDraft(baseContent) == baseContent # <<>> /\ Trim(baseContent) # <<>>

\* a mutant of SelectedFragments: the fragments come in the order in which
\* they were selected
SelectedFragmentsBySelection(config, allThoughts) ==
    LET ids == SelectSeq(config.selectedThoughtIds,
                         LAMBDA id : \E i \in DOMAIN allThoughts : allThoughts[i].id = id)
        At(id) == CHOOSE i \in DOMAIN allThoughts : allThoughts[i].id = id
    IN  [k \in DOMAIN ids |-> [content |-> allThoughts[At(ids[k])].content,
                                tags |-> allThoughts[At(ids[k])].tags]]

\* thoughts.filter(t => config.selectedThoughtIds.includes(t.id))
\*         .map(t => `- ${t.content} (tags: ${t.tags.join(', ')})`)
SelectedFragments(config, allThoughts) ==
    LET chosen == SelectSeq(allThoughts,
                            LAMBDA t : \E i \in DOMAIN config.selectedThoughtIds :
                                           config.selectedThoughtIds[i] = t.id)
    IN  [i \in DOMAIN chosen |-> [content |-> chosen[i].content, tags |-> chosen[i].tags]]

\* a mutant of ContentSource: the fragments are listed beside the draft
ContentSourceBoth(config, allThoughts, baseContent) ==
    [kind |-> IF HasDraft(baseContent) THEN "draft" ELSE "fragments",
     draft |-> IF HasDraft(baseContent) THEN baseContent ELSE <<>>,
     fragments |-> SelectedFragments(config, allThoughts)]

\* contentSource: the draft under its heading, or the selected fragments
\* under theirs
ContentSource(config, allThoughts, baseContent) ==
    IF HasDraft(baseContent)
    THEN [kind |-> "draft", draft |-> baseContent, fragments |-> <<>>]
    ELSE [kind |-> "fragments", draft |-> <<>>,
          fragments |-> SelectedFragments(config, allThoughts)]

English == "English"
SimplifiedChinese == "Simplified Chinese"

\* a mutant of TargetLanguage: X is missing from the list
TargetLanguageWithoutX(plat) ==
    IF plat \in {TIKTOK, INSTAGRAM} THEN English ELSE SimplifiedChinese

\* isEnglishPlatform ? "English" : "Simplified Chinese"
TargetLanguage(plat) ==
    IF plat \in {TIKTOK, INSTAGRAM, X} THEN English ELSE SimplifiedChinese

\* the switch on config.platform: one brief per platform
FormatDesc(plat) == IF plat \in PlatformType THEN <<"style of", plat>> ELSE <<"adapted to", plat>>

\* userPrompt
UserPrompt(config, allThoughts, baseContent) ==
    [platform |-> config.platform,
     niche |-> config.niche,
     source |-> ContentSource(config, allThoughts, baseContent),
     refUrl |-> IF config.refUrl # "" THEN Some(config.refUrl) ELSE Undefined,
     style |-> config.styleDescription,
     language |-> TargetLanguage(config.platform),
     format |-> FormatDesc(config.platform)]

ThinkingBudget == 1024
GeminiProModel == "gemini-3-pro-preview"
GeminiFlashModel == "gemini-3-flash-preview"
DeepSeekUrl == "https://api.deepseek.com/chat/completions"
QwenUrl == "https://dashscope.aliyuncs.com/compatible-mode/v1/chat/completions"
NoProvider == "undefined"

\* ai.models.generateContent({model, ..., thinkingConfig})
NativeCall(model, budget) ==
    [api |-> "native", endpoint |-> "generateContent", model |-> model,
     thinkingBudget |-> budget]
\* fetch(baseURL, {method: 'POST', ... model ...})
HttpCall(url, model) ==
    [api |-> "http", endpoint |-> url, model |-> model, thinkingBudget |-> Undefined]

\* generateText: the one call it makes for config.aiProvider (no
\* thinkingBudget is passed by its callers)
generateTextCall(aiProvider) ==
    LET provider == IF aiProvider = NoProvider THEN "gemini" ELSE aiProvider
    IN  IF provider = "deepseek" THEN HttpCall(DeepSeekUrl, "deepseek-chat")
        ELSE IF provider = "qwen" THEN HttpCall(QwenUrl, "qwen-plus")
        ELSE NativeCall(GeminiFlashModel, Undefined)

\* a mutant of generateViralCopyCall: everything goes through generateText
generateViralCopyCallUnified(config) == generateTextCall(config.aiProvider)

\* generateViralCopy: the native call with the thinking budget, or
\* generateText
generateViralCopyCall(config) ==
    IF config.aiProvider = "gemini" \/ config.aiProvider = NoProvider
    THEN NativeCall(GeminiProModel, Some(ThinkingBudget))
    ELSE generateTextCall(config.aiProvider)

----------------------------------------------------------------------------
(* callOpenAICompatible and generateText: what they make of the provider's *)
(* answer.  An answer is a rejection of the request, or a response with a  *)
(* status and a body; the body is JSON with or without a text payload, or  *)
(* it is not JSON.                                                         *)

Body(json, content, raw) == [json |-> json, content |-> content, raw |-> raw]
RequestRejected == [kind |-> "reject", status |-> "", body |-> Body(FALSE, Undefined, "")]
Response(status, body) == [kind |-> "response", status |-> status, body |-> body]

\* response.ok
OkStatuses == {"200"}
ErrorBody == Body(TRUE, Undefined, "quota exceeded")

\* new Error(`API Error: ${response.status}`)
ApiError(status) == [name |-> "Error", message |-> <<"API Error: ", status>>]
\* what fetch or the SDK rejects with, what response.json() rejects with
TransportError == [name |-> "TypeError", message |-> <<"request failed">>]
JsonError == [name |-> "SyntaxError", message |-> <<"not JSON">>]

\* a mutant of callOpenAICompatible: a response without a payload is an error
callOpenAICompatibleStrict(ans, empty) ==
    IF ans.kind = "reject" THEN Throw(TransportError)
    ELSE IF ans.status \notin OkStatuses THEN Throw(ApiError(ans.status))
    ELSE IF ~ans.body.json THEN Throw(JsonError)
    ELSE IF ans.body.content = Undefined THEN Throw(JsonError)
    ELSE Return(ans.body.content[1])

\* callOpenAICompatible, after the fetch: the error for a status that is not
\* 2xx (its body is logged), else data.choices?.[0]?.message?.content || "";
\* the catch logs and rethrows.  empty is the empty text.
callOpenAICompatible(ans, empty) ==
    IF ans.kind = "reject" THEN Throw(TransportError)
    ELSE IF ans.status \notin OkStatuses THEN Throw(ApiError(ans.status))
    ELSE IF ~ans.body.json THEN Throw(JsonError)
    ELSE Return(IF ans.body.content = Undefined THEN empty ELSE ans.body.content[1])

\* the native branch: response.text || ""
nativeResult(ans, empty) ==
    IF ans.kind = "reject" THEN Throw(TransportError)
    ELSE Return(IF ans.body.content = Undefined THEN empty ELSE ans.body.content[1])

\* generateText: the outcome of its one call
generateTextResult(call, ans, empty) ==
    IF call.api = "http" THEN callOpenAICompatible(ans, empty) ELSE nativeResult(ans, empty)

\* generateViralCopy: the outcome of its native call, or of generateText
generateViralCopyResult(call, ans) ==
    IF call.thinkingBudget # Undefined THEN nativeResult(ans, "")
    ELSE generateTextResult(call, ans, "")

\* the answers explored, by the kind of call and of text
HttpAnswers(texts) ==
    {RequestRejected, Response("500", ErrorBody), Response("200", Body(FALSE, Undefined, "<html>"))}
    \cup {Response("200", Body(TRUE, t, "json")) : t \in texts}
NativeAnswers(texts) ==
    {RequestRejected} \cup {Response("200", Body(TRUE, t, "json")) : t \in texts}
AnswersTo(call, texts) == IF call.api = "http" THEN HttpAnswers(texts) ELSE NativeAnswers(texts)

\* what is observed of a text call when it settles
TextSeen(caller, call, ans, ret) == [caller |-> caller, call |-> call, ans |-> ans, ret |-> ret]

----------------------------------------------------------------------------
(* generateImageForCopy *)

TextPart == [inline |-> FALSE, data |-> ""]
InlinePart(d) == [inline |-> TRUE, data |-> d]

\* response.candidates?.[0]?.content?.parts || []
ImageParts ==
    {<<>>, <<TextPart>>, <<TextPart, InlinePart("AAA"), InlinePart("BBB")>>}

DataUri(d) == [scheme |-> "data:image/png;base64", data |-> d]

GenericPrompt(niche) == [template |-> "A high quality aesthetic photo for", niche |-> niche]
DerivedPrompt(text) == [template |-> text, niche |-> ""]

\* a mutant of ImagePromptOf: the text of the response is the prompt even
\* when it is empty
ImagePromptOfNoFallback(text, niche) == DerivedPrompt(TextOrEmpty(text))

\* promptGenResponse.text || `A high quality aesthetic photo for ${niche}`
ImagePromptOf(text, niche) ==
    IF TextOrEmpty(text) = "" THEN GenericPrompt(niche) ELSE DerivedPrompt(text[1])

\* new Error("No image data found")
NoImageData == [name |-> "Error", message |-> <<"No image data found">>]

\* a mutant of FirstInline: the last part with an inline payload is taken
RECURSIVE FirstInlineLast(_)
FirstInlineLast(parts) ==
    IF parts = <<>> THEN Throw(NoImageData)
    ELSE IF parts[Len(parts)].inline THEN Return(DataUri(parts[Len(parts)].data))
    ELSE FirstInlineLast(SubSeq(parts, 1, Len(parts) - 1))

RECURSIVE FirstInline(_)
\* the for loop over the parts, then the throw
FirstInline(parts) ==
    IF parts = <<>> THEN Throw(NoImageData)
    ELSE IF Head(parts).inline THEN Return(DataUri(Head(parts).data))
    ELSE FirstInline(Tail(parts))

\* response.candidates?.[0]?.content?.parts || []
PartsOf(payload) == IF payload = Undefined THEN <<>> ELSE payload[1]

\* the image call rejects, or resolves with a response with or without a
\* list of parts
ImageRejected == [ok |-> FALSE, parts |-> Undefined]
ImageResponse(payload) == [ok |-> TRUE, parts |-> payload]

\* generateImageForCopy from its image call on: the rejection is logged and
\* rethrown, else the loop
generateImageResult(resp) ==
    IF ~resp.ok THEN Throw(TransportError) ELSE FirstInline(PartsOf(resp.parts))

----------------------------------------------------------------------------
(* GenerationTab: the state of a freshly mounted component *)

DefaultSettings ==
    [niche |-> NicheOTHER, styleDescription |-> "default style", aiProvider |-> NoProvider]

NoCopy == <<>>

FreshTab ==
    /\ viewState = "config"
    /\ platform = XIAOHONGSHU
    /\ refUrl = ""
    /\ withImage = FALSE
    /\ previewContent = <<>>
    /\ isSmartOrganizing = FALSE
    /\ isExtracting = FALSE
    /\ isGenerating = FALSE
    /\ isAuditing = FALSE
    /\ currentCopy = NoCopy
    /\ editedResult = ""

\* the component is rendered only while its tab is the active one
Mounted == activeTab = "generate"
\* if (viewState === 'result' && currentCopy) the result view is rendered,
\* otherwise the config view
ResultView == Mounted /\ viewState = "result" /\ currentCopy # NoCopy
ConfigView == Mounted /\ ~ResultView

\* every user event (a click, an input) counts against the bound
UserEvent == nEvents < MaxEvents /\ nEvents' = nEvents + 1

\* alert(...) messages
GenerateFailedAlert == "generate failed"
ScoreUpdatedAlert == "score updated"
ScoreFailedAlert == "score failed"

RemoveAt(s, i) == SubSeq(s, 1, i - 1) \o SubSeq(s, i + 1, Len(s))

\* const fullConfig = {...globalSettings, platform, refUrl, selectedThoughtIds,
\*                     styleMode: 'manual', withImage}
FullConfig ==
    [niche |-> globalSettings.niche,
     styleDescription |-> globalSettings.styleDescription,
     aiProvider |-> globalSettings.aiProvider,
     platform |-> platform,
     refUrl |-> refUrl,
     selectedThoughtIds |-> selectedThoughtIds,
     styleMode |-> "manual",
     withImage |-> withImage]

\* the locals of a handleGenerate invocation at its first await; live says
\* that the component instance the handler belongs to is still mounted
NewCycle(cfg) ==
    [pc |-> "copy", live |-> TRUE, cfg |-> cfg, content |-> "",
     imageText |-> "", imagePrompt |-> GenericPrompt(""), imageUrl |-> Undefined,
     auditText |-> "", auditPlatform |-> "", calls |-> <<"copy">>, failed |-> "",
     \* generateViralCopy(fullConfig, thoughts, previewContent)
     request |-> [call |-> generateViralCopyCall(cfg),
                  baseContent |-> previewContent,
                  prompt |-> UserPrompt(cfg, thoughts, previewContent)]]

\* the step of a handleGenerate invocation that issues the audit call,
\* a mutant of ToAudit: the audit is handed the text of the editable result
ToAuditEdited(task) ==
    [task EXCEPT !.pc = "audit", !.calls = Append(@, "audit"),
                 !.imagePrompt = GenericPrompt(""),
                 !.auditText = editedResult, !.auditPlatform = task.cfg.platform]

\* auditCopyContent(content, platform, ...); platform and withImage are the
\* values of the render the handler was created in, the ones in its fullConfig
ToAudit(task) ==
    [task EXCEPT !.pc = "audit", !.calls = Append(@, "audit"),
                 !.imagePrompt = GenericPrompt(""),   \* generateImageForCopy has returned
                 !.auditText = task.content, !.auditPlatform = task.cfg.platform]

\* handleGenerate, up to the first await: setIsGenerating(true), build
\* fullConfig, call generateViralCopy
StartGenerate ==
    /\ ConfigView
    /\ ~isGenerating                 \* the button is disabled while isGenerating
    /\ UserEvent
    /\ isGenerating' = TRUE
    /\ gen' = Append(gen, NewCycle(FullConfig))
    /\ UNCHANGED <<appVars, tagVars, formVars, viewState, isAuditing, currentCopy,
                   editedResult, reaud, aux, outVars>>

\* a mutant of CopyResolve: the image is synthesised whatever withImage says
CopyResolveAlwaysImage(c, text) ==
    /\ c \in DOMAIN gen /\ gen[c].pc = "copy"
    /\ gen' = [gen EXCEPT ![c].content = TextOrEmpty(text), ![c].pc = "imgPrompt",
                          ![c].calls = Append(@, "imagePrompt"),
                          ![c].imageText = TextOrEmpty(text)]
    /\ UNCHANGED <<appVars, tagVars, formVars, tabVars, reaud, aux, outVars, nEvents>>

\* generateViralCopy resolves: content = response.text || "", then either
\* generateImageForCopy is called (its first call derives the prompt) or
\* the audit
\* a mutant of AfterCopy: the audit is started beside the image synthesis
AfterCopyParallel(task, text) ==
    LET t == [task EXCEPT !.content = TextOrEmpty(text)]
    IN  IF t.cfg.withImage
        THEN [t EXCEPT !.pc = "imgPrompt", !.calls = @ \o <<"imagePrompt", "audit">>,
                       !.imageText = t.content, !.auditText = t.content,
                       !.auditPlatform = t.cfg.platform]
        ELSE ToAudit(t)

\* handleGenerate after generateViralCopy has resolved with text: the image
\* synthesis is started if it was requested, else the audit
AfterCopy(task, text) ==
    LET t == [task EXCEPT !.content = TextOrEmpty(text)]
    IN  IF t.cfg.withImage
        THEN [t EXCEPT !.pc = "imgPrompt", !.calls = Append(@, "imagePrompt"),
                       !.imageText = t.content]
        ELSE ToAudit(t)

CopyResolve(c, text) ==
    /\ c \in DOMAIN gen /\ gen[c].pc = "copy"
    /\ gen' = [gen EXCEPT ![c] = AfterCopy(gen[c], text)]
    /\ UNCHANGED <<appVars, tagVars, formVars, tabVars, reaud, aux, outVars, nEvents>>

\* the catch and finally of handleGenerate: alert, setIsGenerating(false);
\* the invocation returns
GenerateFailed(c) ==
    /\ gen' = RemoveAt(gen, c)
    /\ lastAlert' = GenerateFailedAlert
    /\ isGenerating' = IF gen[c].live THEN FALSE ELSE isGenerating
    /\ UNCHANGED <<appVars, tagVars, formVars, viewState, isAuditing, currentCopy,
                   editedResult, reaud, aux, lastTagged, lastExtract, nEvents>>

\* a mutant of CopyReject: the failure is swallowed and the cycle goes on
\* with empty content
CopyRejectSwallowed(c) ==
    /\ c \in DOMAIN gen /\ gen[c].pc = "copy"
    /\ gen' = [gen EXCEPT ![c] = ToAudit([gen[c] EXCEPT !.failed = "copy"])]
    /\ UNCHANGED <<appVars, tagVars, formVars, tabVars, reaud, aux, outVars, nEvents>>

\* the copy call of generateViralCopy is answered: generateViralCopy resolves
\* with the text it makes of the answer, or rejects
CopyCallSettle(c, ans) ==
    /\ c \in DOMAIN gen /\ gen[c].pc = "copy"
    /\ ans \in AnswersTo(gen[c].request.call, CopyTexts)
    /\ UNCHANGED lastImage
    /\ LET r == generateViralCopyResult(gen[c].request.call, ans)
       IN  /\ lastText' = Some(TextSeen("generateViralCopy", gen[c].request.call, ans, r))
           /\ IF r.threw
              THEN GenerateFailed(c) /\ UNCHANGED lastAudit
              ELSE /\ gen' = [gen EXCEPT ![c] = AfterCopy(gen[c], Some(r.value))]
                   /\ UNCHANGED <<appVars, tagVars, formVars, tabVars, reaud, aux, lastAlert,
                                  lastAudit, lastTagged, lastExtract, nEvents>>

\* a mutant of CopyReject: the failed request is issued again
CopyRejectRetried(c) ==
    /\ c \in DOMAIN gen /\ gen[c].pc = "copy"
    /\ gen' = [gen EXCEPT ![c].calls = Append(@, "copy")]
    /\ UNCHANGED <<appVars, tagVars, formVars, tabVars, reaud, aux, outVars, nEvents>>

\* generateViralCopy rejects: the exception reaches the outer catch
CopyReject(c) ==
    /\ c \in DOMAIN gen /\ gen[c].pc = "copy"
    /\ GenerateFailed(c)
    /\ UNCHANGED <<lastAudit, lastText, lastImage>>

\* the prompt-derivation call of generateImageForCopy resolves: the image
\* call is made with the derived or the generic prompt
ImgPromptResolve(c, text) ==
    /\ c \in DOMAIN gen /\ gen[c].pc = "imgPrompt"
    /\ gen' = [gen EXCEPT ![c].pc = "imgCall", ![c].calls = Append(@, "image"),
                          ![c].imagePrompt = ImagePromptOf(text, gen[c].cfg.niche)]
    /\ UNCHANGED <<appVars, tagVars, formVars, tabVars, reaud, aux, outVars, nEvents>>

\* a mutant of ImageFailed: handleGenerate without its inner try/catch
ImageFailedFatal(c) == GenerateFailed(c) /\ UNCHANGED <<lastAudit, lastText>>

\* the catch around generateImageForCopy in handleGenerate: the error is
\* logged, imageUrl stays undefined, the audit is called
ImageFailed(c) ==
    /\ gen' = [gen EXCEPT ![c] = ToAudit([gen[c] EXCEPT !.failed = "image"])]
    /\ UNCHANGED <<appVars, tagVars, formVars, tabVars, reaud, aux, lastAlert, lastAudit,
                   lastTagged, lastExtract, lastText, nEvents>>

\* the prompt-derivation call rejects: generateImageForCopy throws
ImgPromptReject(c) ==
    /\ c \in DOMAIN gen /\ gen[c].pc = "imgPrompt"
    /\ ImageFailed(c)
    /\ UNCHANGED lastImage

\* the image call resolves: the first inline payload becomes the data URI;
\* without one generateImageForCopy throws "No image data found"
ImageReturned(c, r) ==
    IF r.threw
    THEN ImageFailed(c)
    ELSE /\ gen' = [gen EXCEPT ![c] = ToAudit([gen[c] EXCEPT !.imageUrl = Some(r.value)])]
         /\ UNCHANGED <<appVars, tagVars, formVars, tabVars, reaud, aux, lastAlert, lastAudit,
                        lastTagged, lastExtract, lastText, nEvents>>

ImgCallResolve(c, parts) ==
    /\ c \in DOMAIN gen /\ gen[c].pc = "imgCall"
    /\ ImageReturned(c, FirstInline(parts))
    /\ UNCHANGED lastImage

\* what is observed of generateImageForCopy when one of its two calls is
\* answered: the call answered, the answer, the image call made (with its
\* prompt) if any, and what generateImageForCopy returned or threw, if it
\* has ended
ImageSeen(step, resp, call, ret) == [step |-> step, resp |-> resp, call |-> call, ret |-> ret]

\* answers of the prompt-derivation call and of the image call
PromptAnswers == {Rejected} \cup {Resolved(t) : t \in CopyTexts}
ImageAnswers == {ImageRejected, ImageResponse(Undefined)} \cup {ImageResponse(Some(p)) : p \in ImageParts}

\* the prompt-derivation call is answered: generateImageForCopy makes the
\* image call, or the rejection leaves it as it is not in the try
ImagePromptSettle(c, resp) ==
    /\ c \in DOMAIN gen /\ gen[c].pc = "imgPrompt"
    /\ resp \in PromptAnswers
    /\ IF resp.ok
       THEN /\ gen' = [gen EXCEPT ![c].pc = "imgCall", ![c].calls = Append(@, "image"),
                                 ![c].imagePrompt = ImagePromptOf(resp.text, gen[c].cfg.niche)]
            /\ lastImage' = Some(ImageSeen("prompt", resp,
                                  Some(ImagePromptOf(resp.text, gen[c].cfg.niche)), Undefined))
            /\ UNCHANGED <<appVars, tagVars, formVars, tabVars, reaud, aux, lastAlert,
                           lastAudit, lastTagged, lastExtract, lastText, nEvents>>
       ELSE /\ ImageFailed(c)
            /\ lastImage' = Some(ImageSeen("prompt", resp, Undefined, Some(Throw(TransportError))))

\* the image call is answered: generateImageForCopy returns the data URI or
\* throws
ImageCallSettle(c, resp) ==
    /\ c \in DOMAIN gen /\ gen[c].pc = "imgCall"
    /\ resp \in ImageAnswers
    /\ LET r == generateImageResult(resp)
       IN  /\ lastImage' = Some(ImageSeen("image", resp, Some(gen[c].imagePrompt), Some(r)))
           /\ ImageReturned(c, r)

\* the image call rejects: rethrown by generateImageForCopy
ImgCallReject(c) ==
    /\ c \in DOMAIN gen /\ gen[c].pc = "imgCall"
    /\ ImageFailed(c)
    /\ UNCHANGED lastImage

\* what is observed of an audit call when it settles: the record id, text and
\* platform it was made for, the provider's answer, what auditCopyContent
\* made of it, and how many audits in a row were made for the same id, text
\* and platform
AuditSeen(id, text, plat, resp, ret) ==
    [id |-> id, text |-> text, platform |-> plat, resp |-> resp, ret |-> ret,
     run |-> IF /\ lastAudit # Undefined
                /\ lastAudit[1].id = id
                /\ lastAudit[1].text = text
                /\ lastAudit[1].platform = plat
             THEN lastAudit[1].run + 1
             ELSE 1]

\* crypto.randomUUID(): a value that differs from every id still held
HeldIds ==
    {currentCopy[i].id : i \in DOMAIN currentCopy} \cup {reaud[i].copy.id : i \in DOMAIN reaud}
FreshId ==
    CHOOSE i \in 1..(Cardinality(HeldIds) + 1) :
        i \notin HeldIds /\ \A j \in 1..(i - 1) : j \in HeldIds

\* a mutant of NewCopy: the record takes the configuration of the moment it
\* is assembled
NewCopyLiveConfig(task, audit, now) ==
    [id |-> FreshId, config |-> FullConfig, content |-> task.content, audit |-> audit,
     imageUrl |-> task.imageUrl, createdAt |-> now]

\* const newCopy = {id: crypto.randomUUID(), config: fullConfig, content,
\*                  audit, imageUrl, createdAt: Date.now()}
NewCopy(task, audit, now) ==
    [id |-> FreshId, config |-> task.cfg, content |-> task.content, audit |-> audit,
     imageUrl |-> task.imageUrl, createdAt |-> now]

\* the audit settles: the record is assembled and installed, the result
\* view is shown, finally clears the flag, the invocation returns.  The
\* state updates of an unmounted component are dropped.
GenAuditSettle(c, resp, now) ==
    /\ c \in DOMAIN gen /\ gen[c].pc = "audit"
    /\ LET r == auditCopyContent(resp)
       IN  /\ lastAudit' = Some(AuditSeen(FreshId, gen[c].auditText, gen[c].auditPlatform,
                                            resp, r))
           /\ IF r.threw
              THEN GenerateFailed(c)
              ELSE /\ gen' = RemoveAt(gen, c)
                   /\ IF gen[c].live
                      THEN /\ currentCopy' = Some(NewCopy(gen[c], r.value, now))
                           /\ editedResult' = gen[c].content
                           /\ viewState' = "result"
                           /\ isGenerating' = FALSE
                      ELSE UNCHANGED <<currentCopy, editedResult, viewState, isGenerating>>
                   /\ UNCHANGED <<appVars, tagVars, formVars, isAuditing, reaud, aux, lastAlert,
                                  lastTagged, lastExtract, nEvents>>
           /\ UNCHANGED <<lastText, lastImage>>

----------------------------------------------------------------------------
(* handleReAudit *)

\* handleReAudit, up to the await: if (!currentCopy) return;
\* setIsAuditing(true); call auditCopyContent(editedResult, platform, ...).
\* The handler keeps the currentCopy, editedResult and platform of the
\* render it was created in.
StartReAudit ==
    /\ ResultView
    /\ ~isAuditing                   \* the button is disabled while isAuditing
    /\ currentCopy # NoCopy
    /\ UserEvent
    /\ isAuditing' = TRUE
    /\ reaud' = Append(reaud,
                  [pc |-> "audit", live |-> TRUE, copy |-> currentCopy[1],
                   auditText |-> editedResult, auditPlatform |-> platform,
                   calls |-> <<"audit">>])
    /\ UNCHANGED <<appVars, tagVars, formVars, viewState, isGenerating, currentCopy,
                   editedResult, gen, aux, outVars>>

\* a mutant of ReAuditedCopy: the new audit is attached to the old content
ReAuditedCopyAuditOnly(task, audit) == [task.copy EXCEPT !.audit = audit]

\* a mutant of ReAuditedCopy: the record is stamped anew
ReAuditedCopyRestamped(task, audit) ==
    [task.copy EXCEPT !.content = task.auditText, !.audit = audit,
                      !.createdAt = task.copy.createdAt + 1]

\* {...currentCopy, content: editedResult, audit: newAudit}
ReAuditedCopy(task, audit) ==
    [task.copy EXCEPT !.content = task.auditText, !.audit = audit]

\* the audit of a re-audit settles: setCurrentCopy, alert, finally
\* setIsAuditing(false), the invocation returns
ReAuditSettle(r, resp) ==
    /\ r \in DOMAIN reaud /\ reaud[r].pc = "audit"
    /\ LET res == auditCopyContent(resp)
       IN  /\ reaud' = RemoveAt(reaud, r)
           /\ lastAlert' = IF res.threw THEN ScoreFailedAlert ELSE ScoreUpdatedAlert
           /\ lastAudit' = Some(AuditSeen(reaud[r].copy.id, reaud[r].auditText,
                                            reaud[r].auditPlatform, resp, res))
           /\ IF reaud[r].live
              THEN /\ isAuditing' = FALSE
                   /\ currentCopy' = IF res.threw THEN currentCopy
                                     ELSE Some(ReAuditedCopy(reaud[r], res.value))
              ELSE UNCHANGED <<isAuditing, currentCopy>>
    /\ UNCHANGED <<appVars, tagVars, formVars, viewState, isGenerating, editedResult,
                   gen, aux, lastTagged, lastExtract, lastText, lastImage, nEvents>>

----------------------------------------------------------------------------
(* Form inputs and navigation *)

PlatformInputs == {XIAOHONGSHU, TIKTOK}
UrlInputs == {"", "https://u"}
EditInputs == {"edited"}
NicheInputs == {NicheOTHER, NicheFOOD}
ProviderInputs == {"deepseek"}
Tabs == {"capture", "generate", "settings"}

\* PlatformCard: onClick={() => setPlatform(type)}
SetPlatform(p) ==
    /\ ConfigView /\ p # platform /\ UserEvent
    /\ platform' = p
    /\ UNCHANGED <<appVars, tagVars, refUrl, withImage, draftVars, tabVars, taskVars,
                   outVars>>

\* onChange={(e) => setRefUrl(e.target.value)}
SetRefUrl(u) ==
    /\ ConfigView /\ u # refUrl /\ UserEvent
    /\ refUrl' = u
    /\ UNCHANGED <<appVars, tagVars, platform, withImage, draftVars, tabVars, taskVars,
                   outVars>>

\* onClick={() => setWithImage(!withImage)}
ToggleWithImage ==
    /\ ConfigView /\ UserEvent
    /\ withImage' = ~withImage
    /\ UNCHANGED <<appVars, tagVars, platform, refUrl, draftVars, tabVars, taskVars,
                   outVars>>

\* onChange={(e) => setEditedResult(e.target.value)}
EditResult(t) ==
    /\ ResultView /\ t # editedResult /\ UserEvent
    /\ editedResult' = t
    /\ UNCHANGED <<appVars, tagVars, formVars, viewState, isGenerating, isAuditing,
                   currentCopy, taskVars, outVars>>

\* onClick={() => setViewState('config')}
BackToConfig ==
    /\ ResultView /\ UserEvent
    /\ viewState' = "config"
    /\ UNCHANGED <<appVars, tagVars, formVars, isGenerating, isAuditing, currentCopy,
                   editedResult, taskVars, outVars>>

\* answers of the consolidation call explored: rejection, no text, a blank
\* text, a draft
OrganizeResponses ==
    {Rejected, Resolved(Undefined), Resolved(Some(<<" ">>)), Resolved(Some(<<"d">>))}
OrganizeFailedAlert == "organize failed"

\* handleSmartOrganize, up to the await: setIsSmartOrganizing(true), call
\* smartOrganizeThoughts(thoughts, ...)
StartOrganize ==
    /\ ConfigView
    /\ ~isSmartOrganizing /\ thoughts # <<>>   \* disabled={isSmartOrganizing || thoughts.length === 0}
    /\ UserEvent
    /\ isSmartOrganizing' = TRUE
    /\ aux' = Append(aux, [kind |-> "organize", live |-> TRUE])
    /\ UNCHANGED <<appVars, tagVars, platform, refUrl, withImage, previewContent,
                   isExtracting, tabVars, gen, reaud, outVars>>

\* smartOrganizeThoughts settles: it returns response.text || "" or rethrows;
\* setPreviewContent(organizedText) or the alert, then the finally
OrganizeSettle(a, resp) ==
    /\ a \in DOMAIN aux /\ aux[a].kind = "organize"
    /\ aux' = RemoveAt(aux, a)
    /\ lastAlert' = IF resp.ok THEN lastAlert ELSE OrganizeFailedAlert
    /\ IF aux[a].live
       THEN /\ isSmartOrganizing' = FALSE
            /\ previewContent' = IF ~resp.ok THEN previewContent
                                 ELSE IF resp.text = Undefined THEN <<>> ELSE resp.text[1]
       ELSE UNCHANGED <<previewContent, isSmartOrganizing>>
    /\ UNCHANGED <<appVars, tagVars, platform, refUrl, withImage, isExtracting, tabVars, gen,
                   reaud, lastAudit, lastTagged, lastExtract, lastText, lastImage, nEvents>>

----------------------------------------------------------------------------
(* extractContentFromUrl and handleExtractUrl *)

\* the fetch of the reader proxy rejects, or resolves with a status and a
\* body text
FetchRejected == [kind |-> "reject", status |-> "", text |-> <<>>]
Page(status, text) == [kind |-> "response", status |-> status, text |-> text]
ExtractAnswers ==
    {FetchRejected, Page("500", <<"e">>), Page("200", <<>>), Page("200", <<"e">>)}

\* what a call of extractContentFromUrl comes to, and the requests it made
Outcome(ret, requests) == [ret |-> ret, requests |-> requests]

\* a mutant of extractContentFromUrl: a status that is not 2xx is an error
extractContentFromUrlRaising(url, ans) ==
    IF url = "" THEN Outcome(Return(<<>>), 0)
    ELSE IF ans.kind = "reject" THEN Outcome(Return(<<>>), 1)
    ELSE IF ans.status \in OkStatuses THEN Outcome(Return(ans.text), 1)
    ELSE Outcome(Throw(ApiError(ans.status)), 1)

\* extractContentFromUrl: no request for an empty url; the text of a 2xx
\* response; "" after the catch and for any other status
extractContentFromUrl(url, ans) ==
    IF url = "" THEN Outcome(Return(<<>>), 0)
    ELSE IF ans.kind = "reject" THEN Outcome(Return(<<>>), 1)
    ELSE IF ans.status \in OkStatuses THEN Outcome(Return(ans.text), 1)
    ELSE Outcome(Return(<<>>), 1)

ExtractOkAlert == "extract ok"
ExtractFailedAlert == "extract failed"
ExtractErrorAlert == "extract error"

\* extracted.substring(0, 1000) + (extracted.length > 1000 ? "..." : "")
ExtractLimit == 1000
Excerpt(text) ==
    IF Len(text) > ExtractLimit THEN SubSeq(text, 1, ExtractLimit) \o <<"...">> ELSE text

\* prev => (prev ? prev + "\n\n" : "") + `[...] (${refUrl}):\n` + excerpt
WithReference(prev, url, extracted) ==
    (IF prev # <<>> THEN prev \o <<"\n\n">> ELSE <<>>)
        \o <<"[ref] (", url, "):\n">> \o Excerpt(extracted)

\* handleExtractUrl, up to the await: if (!refUrl) return;
\* setIsExtracting(true); call extractContentFromUrl(refUrl)
StartExtract ==
    /\ ConfigView
    /\ ~isExtracting /\ refUrl # ""          \* disabled={isExtracting || !refUrl}
    /\ UserEvent
    /\ isExtracting' = TRUE
    /\ aux' = Append(aux, [kind |-> "extract", live |-> TRUE, url |-> refUrl])
    /\ UNCHANGED <<appVars, tagVars, platform, refUrl, withImage, previewContent,
                   isSmartOrganizing, tabVars, gen, reaud, outVars>>

\* the fetch is answered and extractContentFromUrl settles: the reference
\* is appended to the preview or the failure alerted, then the finally
ExtractSettle(a, ans) ==
    /\ a \in DOMAIN aux /\ aux[a].kind = "extract"
    /\ ans \in ExtractAnswers
    /\ LET o == extractContentFromUrl(aux[a].url, ans)
       IN  /\ lastExtract' = Some([url |-> aux[a].url, ans |-> ans, ret |-> o.ret,
                                    requests |-> o.requests])
           /\ lastAlert' = IF o.ret.threw THEN ExtractErrorAlert
                           ELSE IF o.ret.value # <<>> THEN ExtractOkAlert
                           ELSE ExtractFailedAlert
           /\ IF aux[a].live
              THEN /\ isExtracting' = FALSE
                   /\ previewContent' =
                         IF ~o.ret.threw /\ o.ret.value # <<>>
                         THEN WithReference(previewContent, aux[a].url, o.ret.value)
                         ELSE previewContent
              ELSE UNCHANGED <<previewContent, isExtracting>>
    /\ aux' = RemoveAt(aux, a)
    /\ UNCHANGED <<appVars, tagVars, platform, refUrl, withImage, isSmartOrganizing, tabVars,
                   gen, reaud, lastAudit, lastTagged, lastText, lastImage, nEvents>>

Detach(tasks) == [i \in DOMAIN tasks |-> [tasks[i] EXCEPT !.live = FALSE]]

\* setActiveTab(t).  Leaving the generate tab unmounts GenerationTab: its
\* state is discarded (the next mount starts from the useState defaults)
\* and the handlers still suspended belong to the discarded instance.
SwitchTab(t) ==
    /\ t \in Tabs /\ t # activeTab /\ UserEvent
    /\ activeTab' = t
    /\ IF activeTab = "generate"
       THEN /\ viewState' = "config" /\ platform' = XIAOHONGSHU /\ refUrl' = ""
            /\ withImage' = FALSE /\ previewContent' = <<>>
            /\ isSmartOrganizing' = FALSE /\ isExtracting' = FALSE
            /\ isGenerating' = FALSE /\ isAuditing' = FALSE
            /\ currentCopy' = NoCopy /\ editedResult' = ""
            /\ gen' = Detach(gen)
            /\ reaud' = Detach(reaud)
            /\ aux' = Detach(aux)
       ELSE UNCHANGED <<formVars, tabVars, taskVars>>
    /\ UNCHANGED <<thoughts, selectedThoughtIds, globalSettings, tagVars, outVars>>

\* SettingsTab: setSettings({...settings, niche})
SetNiche(n) ==
    /\ activeTab = "settings" /\ n # globalSettings.niche /\ UserEvent
    /\ globalSettings' = [globalSettings EXCEPT !.niche = n]
    /\ UNCHANGED <<activeTab, thoughts, selectedThoughtIds, tagVars, formVars, tabVars,
                   taskVars, outVars>>

\* SettingsTab: setSettings({...settings, aiProvider: provider.toLowerCase()})
SetProvider(p) ==
    /\ activeTab = "settings" /\ p # globalSettings.aiProvider /\ UserEvent
    /\ globalSettings' = [globalSettings EXCEPT !.aiProvider = p]
    /\ UNCHANGED <<activeTab, thoughts, selectedThoughtIds, tagVars, formVars, tabVars,
                   taskVars, outVars>>

----------------------------------------------------------------------------
(* ThoughtTab *)

InputTexts == {<<>>, <<" ">>, <<" ", "a">>}
ThoughtTimes == {2000}

ThoughtIds == {thoughts[i].id : i \in DOMAIN thoughts}
SeqToSet(s) == {s[i] : i \in DOMAIN s}
\* array.filter(x => x !== id)
Without(s, id) == SelectSeq(s, LAMBDA x : x # id)

\* handleAddThought, up to the await, with inputValue the text typed: the
\* fragment is inserted in front with the placeholder tag and the tagging
\* call is made
AddThought(inputValue, now) ==
    /\ activeTab = "capture"
    /\ Trim(inputValue) # <<>>       \* if (!inputValue.trim()) return;
    /\ Len(thoughts) < MaxThoughts
    /\ UserEvent
    /\ thoughts' = <<[id |-> nextId, content |-> inputValue, tags |-> <<TagPlaceholder>>,
                      createdAt |-> now]>> \o thoughts
    /\ nextId' = nextId + 1
    \* generateTagsForThought(content, customApiKey, globalSettings.aiProvider)
    /\ tagTasks' = Append(tagTasks, [id |-> nextId,
                                     provider |-> globalSettings.aiProvider,
                                     call |-> generateTextCall(globalSettings.aiProvider)])
    /\ UNCHANGED <<activeTab, selectedThoughtIds, globalSettings, formVars, tabVars,
                   taskVars, outVars>>

\* a mutant of WithTags: the tagged fragment is put back when it is gone
WithTagsUpsert(prevThoughts, tempId, tags) ==
    IF \E i \in DOMAIN prevThoughts : prevThoughts[i].id = tempId
    THEN [i \in DOMAIN prevThoughts |->
            IF prevThoughts[i].id = tempId THEN [prevThoughts[i] EXCEPT !.tags = tags]
            ELSE prevThoughts[i]]
    ELSE <<[id |-> tempId, content |-> <<"a">>, tags |-> tags, createdAt |-> 1000]>>
         \o prevThoughts

\* prevThoughts.map(t => t.id === tempId ? {...t, tags: tags} : t)
WithTags(prevThoughts, tempId, tags) ==
    [i \in DOMAIN prevThoughts |->
        IF prevThoughts[i].id = tempId THEN [prevThoughts[i] EXCEPT !.tags = tags]
        ELSE prevThoughts[i]]

\* generateTagsForThought settles: the functional update of setThoughts.
\* thoughts is state of App, so the update applies whichever tab is shown.
TagApply(k, result) ==
    /\ thoughts' = WithTags(thoughts, tagTasks[k].id, generateTagsForThought(result))
    /\ tagTasks' = RemoveAt(tagTasks, k)
    /\ lastTagged' = Some([id |-> tagTasks[k].id, found |-> tagTasks[k].id \in ThoughtIds])
    /\ UNCHANGED <<activeTab, selectedThoughtIds, globalSettings, nextId, formVars, tabVars,
                   taskVars, lastAlert, lastAudit, lastImage, lastExtract, nEvents>>

TagSettle(k, result) ==
    /\ k \in DOMAIN tagTasks
    /\ TagApply(k, result)
    /\ UNCHANGED lastText

\* text payloads of the tag call: none, or two labels
TagTexts == {Undefined, Some(TwoLabels)}

\* the call of generateText made for a fragment is answered: generateText
\* resolves with the text it makes of the answer, or rejects
TagCallSettle(k, ans) ==
    /\ k \in DOMAIN tagTasks
    /\ ans \in AnswersTo(tagTasks[k].call, TagTexts)
    /\ LET r == generateTextResult(tagTasks[k].call, ans, <<>>)
       IN  /\ lastText' = Some(TextSeen("generateTagsForThought", tagTasks[k].call, ans, r))
           /\ TagApply(k, r)

\* deleteThought(id)
DeleteThought(id) ==
    /\ activeTab = "capture" /\ id \in ThoughtIds /\ UserEvent
    /\ thoughts' = SelectSeq(thoughts, LAMBDA t : t.id # id)
    /\ selectedThoughtIds' = Without(selectedThoughtIds, id)
    /\ UNCHANGED <<activeTab, globalSettings, tagVars, formVars, tabVars, taskVars, outVars>>

\* toggleSelection(id)
ToggleSelection(id) ==
    /\ activeTab = "capture" /\ id \in ThoughtIds /\ UserEvent
    /\ selectedThoughtIds' = IF id \in SeqToSet(selectedThoughtIds)
                             THEN Without(selectedThoughtIds, id)
                             ELSE Append(selectedThoughtIds, id)
    /\ UNCHANGED <<activeTab, thoughts, globalSettings, tagVars, formVars, tabVars,
                   taskVars, outVars>>

----------------------------------------------------------------------------
(* The application, with one fragment loaded from local storage *)

SavedThought == [id |-> 1, content |-> <<"a">>, tags |-> <<TagSentinel>>, createdAt |-> 1000]

Init ==
    /\ activeTab = "capture"
    /\ thoughts = <<SavedThought>>
    /\ selectedThoughtIds = <<>>
    /\ globalSettings = DefaultSettings
    /\ tagTasks = <<>>
    /\ nextId = 2
    /\ FreshTab
    /\ gen = <<>>
    /\ reaud = <<>>
    /\ aux = <<>>
    /\ lastAlert = "none"
    /\ lastAudit = Undefined
    /\ lastTagged = Undefined
    /\ lastText = Undefined
    /\ lastImage = Undefined
    /\ lastExtract = Undefined
    /\ nEvents = 0

Next ==
    \/ StartGenerate
    \/ \E c \in DOMAIN gen : \E text \in CopyTexts : CopyResolve(c, text)
    \/ \E c \in DOMAIN gen : CopyReject(c)
    \/ \E c \in DOMAIN gen : \E text \in CopyTexts : ImgPromptResolve(c, text)
    \/ \E c \in DOMAIN gen : ImgPromptReject(c)
    \/ \E c \in DOMAIN gen : \E parts \in ImageParts : ImgCallResolve(c, parts)
    \/ \E c \in DOMAIN gen : ImgCallReject(c)
    \/ \E c \in DOMAIN gen : \E resp \in AuditResponses : \E now \in Times :
          GenAuditSettle(c, resp, now)
    \/ StartReAudit
    \/ \E r \in DOMAIN reaud : \E resp \in AuditResponses : ReAuditSettle(r, resp)
    \/ \E p \in PlatformInputs : SetPlatform(p)
    \/ ToggleWithImage
    \/ \E t \in EditInputs : EditResult(t)
    \/ BackToConfig
    \/ \E t \in Tabs : SwitchTab(t)
    \/ \E u \in UrlInputs : SetRefUrl(u)
    \/ \E n \in NicheInputs : SetNiche(n)
    \/ \E p \in ProviderInputs : SetProvider(p)
    \/ \E id \in ThoughtIds : ToggleSelection(id)

Spec == Init /\ [][Next]_vars

\* the capture tab: fragments are added, tagged, selected and deleted
NextTags ==
    \/ \E v \in InputTexts : \E now \in ThoughtTimes : AddThought(v, now)
    \/ \E k \in DOMAIN tagTasks : \E result \in TagResponses : TagSettle(k, result)
    \/ \E id \in ThoughtIds : DeleteThought(id)
    \/ \E id \in ThoughtIds : ToggleSelection(id)
    \/ \E t \in Tabs : SwitchTab(t)

SpecTags == Init /\ [][NextTags]_vars

ProviderNames == {"gemini", "deepseek", "qwen"}

\* the copy-generation request: the draft is consolidated, the platform, the
\* provider and the selection are set, fragments are added, and cycles are
\* started and fail or go on to their audit
NextCopy ==
    \/ \E t \in Tabs : SwitchTab(t)
    \/ \E p \in PlatformType : SetPlatform(p)
    \/ \E p \in ProviderNames : SetProvider(p)
    \/ \E id \in ThoughtIds : ToggleSelection(id)
    \/ \E v \in InputTexts : \E now \in ThoughtTimes : AddThought(v, now)
    \/ StartOrganize
    \/ \E a \in DOMAIN aux : \E resp \in OrganizeResponses : OrganizeSettle(a, resp)
    \/ StartGenerate
    \/ \E c \in DOMAIN gen :
          \E ans \in AnswersTo(gen[c].request.call, CopyTexts) : CopyCallSettle(c, ans)
    \/ \E k \in DOMAIN tagTasks :
          \E ans \in AnswersTo(tagTasks[k].call, TagTexts) :
             TagCallSettle(k, ans)

SpecCopy == Init /\ [][NextCopy]_vars

\* the audit call is rejected, or answered with a conforming object
AuditAnswers == {Rejected, Resolved(Some(JsonText(GoodAudit)))}

\* image synthesis: cycles with and without an image, for either niche,
\* whose calls of generateImageForCopy are answered
NextImage ==
    \/ \E t \in Tabs : SwitchTab(t)
    \/ \E n \in NicheInputs : SetNiche(n)
    \/ ToggleWithImage
    \/ StartGenerate
    \/ \E c \in DOMAIN gen : \E text \in CopyTexts : CopyResolve(c, text)
    \/ \E c \in DOMAIN gen : \E resp \in PromptAnswers : ImagePromptSettle(c, resp)
    \/ \E c \in DOMAIN gen : \E resp \in ImageAnswers : ImageCallSettle(c, resp)
    \/ \E c \in DOMAIN gen : \E resp \in AuditAnswers : GenAuditSettle(c, resp, 1000)
    \/ BackToConfig

SpecImage == Init /\ [][NextImage]_vars

\* the reference URL: it is typed, extracted from, and cycles are started
\* on the preview with or without a consolidated draft
NextExtract ==
    \/ \E t \in Tabs : SwitchTab(t)
    \/ \E u \in UrlInputs : SetRefUrl(u)
    \/ StartExtract
    \/ \E a \in DOMAIN aux : \E ans \in ExtractAnswers : ExtractSettle(a, ans)
    \/ StartOrganize
    \/ \E a \in DOMAIN aux : \E resp \in OrganizeResponses : OrganizeSettle(a, resp)
    \/ StartGenerate
    \/ \E c \in DOMAIN gen : \E text \in CopyTexts : CopyResolve(c, text)
    \/ \E c \in DOMAIN gen : CopyReject(c)

SpecExtract == Init /\ [][NextExtract]_vars

\* a provider call of a generation cycle is answered
CycleCallSettles ==
    \/ \E c \in DOMAIN gen : \E text \in CopyTexts : CopyResolve(c, text)
    \/ \E c \in DOMAIN gen : CopyReject(c)
    \/ \E c \in DOMAIN gen : \E resp \in PromptAnswers : ImagePromptSettle(c, resp)
    \/ \E c \in DOMAIN gen : \E resp \in ImageAnswers : ImageCallSettle(c, resp)
    \/ \E c \in DOMAIN gen : \E resp \in AuditAnswers : GenAuditSettle(c, resp, 1000)

\* generation cycles whose provider calls are all answered in the end; the
\* user may stop acting at any time
NextCycles ==
    \/ \E t \in Tabs : SwitchTab(t)
    \/ ToggleWithImage
    \/ StartGenerate
    \/ BackToConfig
    \/ CycleCallSettles

SpecCycles == Init /\ [][NextCycles]_vars /\ WF_vars(CycleCallSettles)

----------------------------------------------------------------------------
(* Properties of handleGenerate *)

\* the invocation c of handleGenerate returns in this step
GenReturns(c) == c \in DOMAIN gen /\ gen' = RemoveAt(gen, c)
\* the invocation r of handleReAudit returns in this step
ReAuditReturns(r) == r \in DOMAIN reaud /\ reaud' = RemoveAt(reaud, r)
\* the invocation c of handleGenerate goes from one call to the next in this
\* step
GenSteps(c) ==
    c \in DOMAIN gen /\ Len(gen') = Len(gen) /\ gen'[c].pc # gen[c].pc
ImageCalls == {"imagePrompt", "image"}

\* C1: a failure of the copy-generation call is fatal to its cycle.  No
\* cycle goes on after it, and the invocation that returns from the copy
\* call has called neither image synthesis nor the audit, creates no record
\* and leaves currentCopy, editedResult and viewState as they were; the
\* failure is reported.
C1_CopyFailureIsFatal ==
    [][\A c \in DOMAIN gen :
         gen[c].pc = "copy" =>
            /\ \A d \in DOMAIN gen' : gen'[d].failed # "copy"
            /\ GenReturns(c) =>
                  /\ gen[c].calls = <<"copy">>
                  /\ UNCHANGED <<currentCopy, editedResult, viewState>>
                  /\ lastAlert' = GenerateFailedAlert]_vars

\* a cycle has failed in the copy call while a record of an earlier cycle
\* is held
C1_Witness ==
    /\ lastAlert = GenerateFailedAlert
    /\ currentCopy # NoCopy
    /\ viewState = "config"
    /\ gen = <<>>

\* C2: with withImage = true a failure of image synthesis, in either of its
\* calls or for want of an inline payload, is swallowed.  The invocation
\* does not return from the image step and raises no alert there, it goes
\* on to the audit of the generated copy without an imageUrl, and the
\* record it completes with has no imageUrl.
C2_ImageFailureSwallowed ==
    [][\A c \in DOMAIN gen :
         /\ gen[c].pc \in {"imgPrompt", "imgCall"} =>
               /\ ~GenReturns(c)
               /\ GenSteps(c) => lastAlert' = lastAlert
               /\ (GenSteps(c) /\ gen'[c].failed = "image") =>
                     /\ gen'[c].pc = "audit"
                     /\ gen'[c].calls = Append(gen[c].calls, "audit")
                     /\ gen'[c].auditText = gen[c].content
                     /\ gen'[c].imageUrl = Undefined
         /\ (gen[c].pc = "audit" /\ gen[c].failed = "image" /\ GenReturns(c)) =>
               /\ lastAlert' = lastAlert
               /\ gen[c].live =>
                     /\ currentCopy' # NoCopy
                     /\ currentCopy'[1].content = gen[c].content
                     /\ currentCopy'[1].config.withImage
                     /\ currentCopy'[1].imageUrl = Undefined]_vars

\* a cycle with an image requested has completed with a record that has no
\* image, and nothing was reported
C2_Witness ==
    /\ currentCopy # NoCopy
    /\ currentCopy[1].config.withImage
    /\ currentCopy[1].imageUrl = Undefined
    /\ viewState = "result"
    /\ lastAlert = "none"

\* C3: with withImage = false image synthesis is never invoked and the
\* record has no imageUrl.
C3_NoImageUnlessRequested ==
    /\ \A c \in DOMAIN gen :
          ~gen[c].cfg.withImage =>
             /\ SeqToSet(gen[c].calls) \cap ImageCalls = {}
             /\ gen[c].pc \in {"copy", "audit"}
             /\ gen[c].imageUrl = Undefined
    /\ (currentCopy # NoCopy /\ ~currentCopy[1].config.withImage) =>
          currentCopy[1].imageUrl = Undefined

\* a cycle without an image has completed
C3_Witness ==
    /\ currentCopy # NoCopy
    /\ ~currentCopy[1].config.withImage
    /\ currentCopy[1].imageUrl = Undefined
    /\ currentCopy[1].content = "copyA"

\* C4: auditCopyContent returns a value for every outcome of the provider,
\* so an invocation that returns from the audit call has not failed: a
\* generation cycle installs its record and shows the result view without
\* an alert, a re-audit installs the new score and reports the update.
C4_AuditNeverRaises ==
    [][/\ \A resp \in AuditResponses : ~auditCopyContent(resp).threw
       /\ \A c \in DOMAIN gen :
            (gen[c].pc = "audit" /\ GenReturns(c)) =>
               /\ lastAlert' = lastAlert
               /\ gen[c].live =>
                     (currentCopy' # NoCopy /\ viewState' = "result" /\ ~isGenerating')
       /\ \A r \in DOMAIN reaud :
            ReAuditReturns(r) =>
               /\ lastAlert' = ScoreUpdatedAlert
               /\ reaud[r].live =>
                     (currentCopy' # NoCopy /\ currentCopy'[1].content = reaud[r].auditText)]_vars

\* a re-audit whose provider call failed has completed and reported the
\* update
C4_Witness ==
    /\ lastAudit # Undefined
    /\ ~lastAudit[1].resp.ok
    /\ lastAlert = ScoreUpdatedAlert
    /\ currentCopy # NoCopy
    /\ currentCopy[1].audit = FallbackAudit
    /\ currentCopy[1].content = "edited"

----------------------------------------------------------------------------
(* Properties of auditCopyContent *)

\* the provider's answer is not the JSON text of a complete AuditScore
AuditFailure(resp) ==
    \/ ~resp.ok
    \/ resp.text = Undefined
    \/ resp.text[1].kind # "json"
    \/ resp.text[1].value.keys # AuditFields

\* the exact shape of the fallback: six scores of 0, one suggestion, no
\* pros, no sensitive words
IsFallback(a) ==
    /\ a.keys = AuditFields
    /\ \A f \in ScoreFields : a.num[f] = 0
    /\ Len(a.suggestions) = 1
    /\ a.pros = <<>>
    /\ a.sensitiveWords = <<>>

\* C5: on a provider error, a parse failure or a missing field, a response
\* without text and an object that lacks a field included, auditCopyContent
\* returns the fallback.
C5_FallbackOnEveryFailure ==
    (lastAudit # Undefined /\ AuditFailure(lastAudit[1].resp)) =>
        (~lastAudit[1].ret.threw /\ IsFallback(lastAudit[1].ret.value))

\* C6: when the provider's text is not valid JSON, auditCopyContent returns
\* exactly the fallback object.
C6_MalformedJsonGivesFallback ==
    (lastAudit # Undefined /\ lastAudit[1].resp = Resolved(Some(MalformedText))) =>
        /\ lastAudit[1].ret = Return(FallbackAudit)
        /\ IsFallback(lastAudit[1].ret.value)
        /\ lastAudit[1].ret.value.suggestions = <<AuditFailedText>>

\* the audit of a generation cycle was answered with text that is not JSON
\* and the record holds the fallback
C6_Witness ==
    /\ lastAudit # Undefined
    /\ lastAudit[1].resp = Resolved(Some(MalformedText))
    /\ currentCopy # NoCopy
    /\ currentCopy[1].audit = FallbackAudit
    /\ lastAlert = "none"

\* C7: the audit of the current record is complete and well-shaped: it has
\* all nine fields and its six scores are integers in 0..100.
C7_AuditWellShaped ==
    currentCopy # NoCopy =>
        /\ currentCopy[1].audit.keys = AuditFields
        /\ \A f \in ScoreFields : currentCopy[1].audit.num[f] \in 0..100

----------------------------------------------------------------------------
(* Properties of the capture tab *)

\* the tagging of the fragment at position i has settled
Settled(i) == \A k \in DOMAIN tagTasks : tagTasks[k].id # thoughts[i].id

\* C8: generateTagsForThought returns between 1 and 3 labels, each
\* non-empty after trimming, whatever the provider's text, and the sentinel
\* alone when the call fails; so the tag list of a fragment whose tagging
\* has settled is not empty.
C8_OneToThreeLabels ==
    /\ \A result \in TagResponses :
          result.threw => generateTagsForThought(result) = <<TagSentinel>>
    /\ \A i \in DOMAIN thoughts :
          Settled(i) =>
             /\ Len(thoughts[i].tags) \in 1..3
             /\ \A j \in DOMAIN thoughts[i].tags : Trim(thoughts[i].tags[j]) # <<>>

\* the handleAddThought invocation k settles in this step
TagReturns(k) == k \in DOMAIN tagTasks /\ tagTasks' = RemoveAt(tagTasks, k)

\* C9: the completion of a tagging task changes only the tags of the
\* fragment it was started for; every other fragment and the order of the
\* list are unchanged, and when the fragment has been deleted meanwhile the
\* list is unchanged: the fragment is not inserted again.
C9_TargetedTagUpdate ==
    [][\A k \in DOMAIN tagTasks :
         TagReturns(k) =>
            /\ Len(thoughts') = Len(thoughts)
            /\ \A i \in DOMAIN thoughts :
                  IF thoughts[i].id = tagTasks[k].id
                  THEN thoughts'[i] = [thoughts[i] EXCEPT !.tags = thoughts'[i].tags]
                  ELSE thoughts'[i] = thoughts[i]
            /\ tagTasks[k].id \notin ThoughtIds => thoughts' = thoughts
            /\ UNCHANGED selectedThoughtIds]_vars

\* the tagging of a fragment deleted meanwhile has completed, after the
\* tagging of a fragment added later
C9_Witness ==
    /\ lastTagged # Undefined
    /\ ~lastTagged[1].found
    /\ lastTagged[1].id \notin ThoughtIds
    /\ Len(thoughts) = 2
    /\ \A i \in DOMAIN thoughts : Settled(i) /\ thoughts[i].tags # <<TagPlaceholder>>

----------------------------------------------------------------------------
(* Properties of handleReAudit *)

\* C10: a re-audit replaces only the content and the audit of the existing
\* record: when it completes, the id, config, createdAt and imageUrl of the
\* current record are what they were.  It makes one audit call and no call
\* of copy generation or image synthesis, and it is started only on a
\* record.
C10_ReAuditFrame ==
    [][/\ \A r \in DOMAIN reaud :
            /\ reaud[r].calls = <<"audit">>
            /\ (ReAuditReturns(r) /\ reaud[r].live) =>
                  /\ gen' = gen
                  /\ currentCopy # NoCopy /\ currentCopy' # NoCopy
                  /\ currentCopy'[1].id = currentCopy[1].id
                  /\ currentCopy'[1].config = currentCopy[1].config
                  /\ currentCopy'[1].createdAt = currentCopy[1].createdAt
                  /\ currentCopy'[1].imageUrl = currentCopy[1].imageUrl
                  /\ currentCopy'[1].content = reaud[r].auditText
       /\ Len(reaud') > Len(reaud) => (currentCopy # NoCopy /\ gen' = gen)]_vars

\* C11: re-audit is idempotent on identical content.  When a re-audit of
\* the current record completes on the text and for the platform of the
\* audit before it, and the provider answers as it did then, the record is
\* left as that audit left it.
C11_ReAuditIdempotent ==
    [][\A r \in DOMAIN reaud :
         ( /\ ReAuditReturns(r) /\ reaud[r].live
           /\ lastAudit # Undefined
           /\ lastAudit'[1].run >= 2
           /\ lastAudit'[1].resp = lastAudit[1].resp
           /\ currentCopy # NoCopy
           /\ reaud[r].copy = currentCopy[1]
           /\ currentCopy[1].content = lastAudit[1].text
           /\ currentCopy[1].audit = lastAudit[1].ret.value )
         => currentCopy' = currentCopy]_vars

\* the edited text has been re-audited twice in a row with the same answer
C11_Witness ==
    /\ lastAudit # Undefined
    /\ lastAudit[1].run >= 2
    /\ lastAudit[1].resp = Resolved(Some(JsonText(GoodAudit)))
    /\ lastAlert = ScoreUpdatedAlert
    /\ currentCopy # NoCopy
    /\ currentCopy[1].content = "edited"
    /\ currentCopy[1].audit = GoodAudit
    /\ reaud = <<>>

\* C12: the current record is never a mixture of two audits.  Every step
\* that installs or changes the record is the return of one invocation,
\* and writes the content together with the audit that this invocation's
\* single audit call returned for exactly that content.
C12_ContentAndAuditTogether ==
    [][(currentCopy' # currentCopy /\ currentCopy' # NoCopy) =>
          /\ (\E c \in DOMAIN gen : GenReturns(c) /\ gen[c].calls[Len(gen[c].calls)] = "audit")
             \/ (\E r \in DOMAIN reaud : ReAuditReturns(r))
          /\ lastAudit' # Undefined
          /\ lastAudit'[1].id = currentCopy'[1].id
          /\ lastAudit'[1].text = currentCopy'[1].content
          /\ lastAudit'[1].ret.value = currentCopy'[1].audit]_vars

\* a re-audit of edited text has completed while a generation cycle started
\* after it is in flight
C12_Witness ==
    /\ currentCopy # NoCopy
    /\ currentCopy[1].content = "edited"
    /\ currentCopy[1].audit = PartialAudit
    /\ lastAudit # Undefined /\ lastAudit[1].text = "edited"
    /\ \E c \in DOMAIN gen : gen[c].live

----------------------------------------------------------------------------
(* Properties of generateViralCopy *)

\* C13, as stated: when the base draft is not empty the content source is
\* the draft verbatim and holds no fragment text, and fragment text is used
\* only when the draft is absent or empty.
C13_DraftWhenNonEmpty ==
    \A c \in DOMAIN gen :
        LET r == gen[c].request
        IN  /\ r.baseContent # <<>> =>
                 /\ r.prompt.source.kind = "draft"
                 /\ r.prompt.source.draft = r.baseContent
                 /\ r.prompt.source.fragments = <<>>
            /\ r.prompt.source.kind = "fragments" => r.baseContent = <<>>

\* C13, amended: when the base draft is not blank (not empty after
\* trimming) the content source is the draft verbatim and holds no fragment
\* text; fragment text is used only when the draft is absent, empty or
\* blank.
C13_DraftWhenNonBlank ==
    \A c \in DOMAIN gen :
        LET r == gen[c].request
        IN  /\ (\E i \in DOMAIN r.baseContent : r.baseContent[i] # " ") =>
                 /\ r.prompt.source.kind = "draft"
                 /\ r.prompt.source.draft = r.baseContent
                 /\ r.prompt.source.fragments = <<>>
            /\ r.prompt.source.kind = "fragments" =>
                 (\A i \in DOMAIN r.baseContent : r.baseContent[i] = " ")

\* a cycle was started with a draft and a selected fragment
C13_Witness ==
    \E c \in DOMAIN gen :
        /\ gen[c].request.baseContent = <<"d">>
        /\ gen[c].cfg.selectedThoughtIds # <<>>
        /\ \E i \in DOMAIN thoughts : thoughts[i].id = gen[c].cfg.selectedThoughtIds[1]
        /\ gen[c].request.prompt.source.kind = "draft"

\* C14: the language the prompt asks for depends on the platform alone:
\* English for TikTok, Instagram and X, Simplified Chinese for the other
\* three.
C14_LanguageByPlatform ==
    \A c \in DOMAIN gen :
        LET lang == gen[c].request.prompt.language
            plat == gen[c].cfg.platform
        IN  /\ plat \in {TIKTOK, INSTAGRAM, X} => lang = English
            /\ plat \in {XIAOHONGSHU, WECHAT_MOMENTS, DOUYIN} => lang = SimplifiedChinese
            /\ gen[c].request.prompt.platform = plat

\* a cycle for X was started under another provider than the default
C14_Witness ==
    \E c \in DOMAIN gen :
        /\ gen[c].cfg.platform = X
        /\ gen[c].cfg.aiProvider = "qwen"
        /\ gen[c].request.prompt.language = English

\* C15: copy generation routes by provider.  With aiProvider absent or
\* 'gemini' it makes one native call with the thinking budget 1024; with
\* 'deepseek' or 'qwen' it makes one HTTP chat-completion call to that
\* backend.  generateText, too, takes an absent aiProvider for the primary
\* provider.
C15_RoutingByProvider ==
    /\ \A c \in DOMAIN gen :
          LET call == gen[c].request.call
              prov == gen[c].cfg.aiProvider
          IN  /\ Len(SelectSeq(gen[c].calls, LAMBDA n : n = "copy")) = 1
              /\ prov \in {NoProvider, "gemini"} =>
                    (call.api = "native" /\ call.thinkingBudget = Some(1024))
              /\ prov = "deepseek" => (call.api = "http" /\ call.endpoint = DeepSeekUrl)
              /\ prov = "qwen" => (call.api = "http" /\ call.endpoint = QwenUrl)
    /\ \A k \in DOMAIN tagTasks :
          /\ tagTasks[k].provider \in {NoProvider, "gemini"} => tagTasks[k].call.api = "native"
          /\ tagTasks[k].provider = "deepseek" => tagTasks[k].call.endpoint = DeepSeekUrl
          /\ tagTasks[k].provider = "qwen" => tagTasks[k].call.endpoint = QwenUrl

\* a cycle was started under DeepSeek while a tagging call made without a
\* provider is in flight
C15_Witness ==
    /\ \E c \in DOMAIN gen :
          gen[c].cfg.aiProvider = "deepseek" /\ gen[c].request.call.api = "http"
    /\ \E k \in DOMAIN tagTasks :
          tagTasks[k].provider = NoProvider /\ tagTasks[k].call.api = "native"

----------------------------------------------------------------------------
(* The answers of the OpenAI-style providers *)

\* a text call went through callOpenAICompatible and has settled
HttpSettled == lastText # Undefined /\ lastText[1].call.api = "http"
\* ... on a response whose status is not 2xx
HttpErrorSeen ==
    /\ HttpSettled
    /\ lastText[1].ans.kind = "response"
    /\ lastText[1].ans.status \notin OkStatuses

\* C16: a response of an OpenAI-style provider whose status is not 2xx makes
\* the call fail, and the error raised to the caller carries the body of the
\* response as its text.
C16_ErrorCarriesBody ==
    HttpErrorSeen =>
        /\ lastText[1].ret.threw
        /\ lastText[1].ans.body.raw \in SeqToSet(lastText[1].ret.value.message)

\* a text call of generateText has settled on a successful response that
\* has no text payload
GenerateTextCalls == {generateTextCall(p) : p \in ProviderNames \cup {NoProvider}}
NoPayloadSeen ==
    /\ lastText # Undefined
    /\ lastText[1].call \in GenerateTextCalls
    /\ lastText[1].ans.kind = "response"
    /\ lastText[1].call.api = "http" => lastText[1].ans.status \in OkStatuses /\ lastText[1].ans.body.json
    /\ lastText[1].ans.body.content = Undefined

\* C17: when the provider responds successfully without a text payload,
\* generateText returns the empty text and does not raise, for the
\* OpenAI-style providers and for the native one.
C17_EmptyTextOnNoPayload ==
    NoPayloadSeen =>
        /\ ~lastText[1].ret.threw
        /\ IF lastText[1].caller = "generateTagsForThought"
           THEN lastText[1].ret.value = <<>>
           ELSE lastText[1].ret.value = ""
C17_Witness ==
    /\ NoPayloadSeen
    /\ lastText[1].call.api = "http"
    /\ ~lastText[1].ret.threw
----------------------------------------------------------------------------
(* One request per invocation *)

NoRepeat(s) == \A i, j \in DOMAIN s : s[i] = s[j] => i = j

\* C18: nothing is retried.  The requests an invocation has issued hold each
\* request once: a cycle waiting for its copy has issued that request and
\* nothing else, a cycle at its audit has issued one audit request, as its
\* last, and a re-audit has issued its one audit request, whatever has
\* failed before.
C18_NoRetry ==
    /\ \A c \in DOMAIN gen :
          /\ NoRepeat(gen[c].calls)
          /\ gen[c].calls[1] = "copy"
          /\ gen[c].pc = "copy" => gen[c].calls = <<"copy">>
          /\ gen[c].pc = "audit" => gen[c].calls[Len(gen[c].calls)] = "audit"
    /\ \A r \in DOMAIN reaud : reaud[r].calls = <<"audit">>
\* an audit request and a copy request have failed, and a re-audit and a
\* cycle are under way with one request each
C18_Witness ==
    /\ lastAudit # Undefined /\ lastAudit[1].resp = Rejected
    /\ lastAlert = GenerateFailedAlert
    /\ \E c \in DOMAIN gen : gen[c].pc = "copy"
    /\ reaud # <<>>
----------------------------------------------------------------------------
(* The order of the calls of a cycle *)

\* the call a cycle is suspended on
AwaitedCall(pc) ==
    CASE pc = "copy" -> "copy"
      [] pc = "imgPrompt" -> "imagePrompt"
      [] pc = "imgCall" -> "image"
      [] pc = "audit" -> "audit"

\* the calls of a cycle in their order, up to any of them
CallOrders(imageRequested) ==
    IF imageRequested
    THEN {<<"copy">>, <<"copy", "imagePrompt">>, <<"copy", "imagePrompt", "image">>,
          <<"copy", "imagePrompt", "audit">>, <<"copy", "imagePrompt", "image", "audit">>}
    ELSE {<<"copy">>, <<"copy", "audit">>}

\* C19: the calls of a cycle are made one after the other, copy generation,
\* then the image synthesis if requested, then the audit; the only call in
\* flight is the last one issued, so every earlier one has settled before it
\* was started.
C19_StrictlySequential ==
    \A c \in DOMAIN gen :
        /\ gen[c].calls \in CallOrders(gen[c].cfg.withImage)
        /\ gen[c].calls[Len(gen[c].calls)] = AwaitedCall(gen[c].pc)
\* a cycle at its audit after both calls of the image synthesis, and one
\* whose image synthesis has failed
C19_Witness ==
    /\ \E c \in DOMAIN gen : gen[c].calls = <<"copy", "imagePrompt", "image", "audit">>
    /\ \E c \in DOMAIN gen : gen[c].pc = "audit" /\ gen[c].failed = "image"
----------------------------------------------------------------------------
(* The text a cycle works on *)

\* C20: in a cycle, the text handed to the image synthesis and the text
\* handed to the audit are the text that copy generation returned, and when
\* the cycle completes in a mounted tab that text is the content of the
\* record installed and the value of the editable result.
C20_OneTextPerCycle ==
    /\ [](\A c \in DOMAIN gen :
            /\ gen[c].pc \in {"imgPrompt", "imgCall"} => gen[c].imageText = gen[c].content
            /\ gen[c].pc = "audit" =>
                  /\ gen[c].auditText = gen[c].content
                  /\ gen[c].cfg.withImage => gen[c].imageText = gen[c].content)
    /\ [][\A c \in DOMAIN gen :
            (gen[c].pc = "audit" /\ GenReturns(c)) =>
                /\ lastAudit' # Undefined /\ lastAudit'[1].text = gen[c].content
                /\ gen[c].live =>
                      /\ currentCopy' # NoCopy
                      /\ currentCopy'[1].content = gen[c].content
                      /\ editedResult' = gen[c].content]_vars
\* a cycle with an image has completed on the text "copyA": the record
\* installed, the audit made and the editable result hold that text
C20_Witness ==
    /\ currentCopy # NoCopy
    /\ currentCopy[1].content = "copyA"
    /\ currentCopy[1].imageUrl # Undefined
    /\ editedResult = "copyA"
    /\ lastAudit # Undefined /\ lastAudit[1].text = "copyA"
    /\ lastAudit[1].id = currentCopy[1].id
    /\ isGenerating = FALSE
----------------------------------------------------------------------------
(* Properties of generateImageForCopy *)

\* the image call has been answered with a response
ImageAnswered ==
    lastImage # Undefined /\ lastImage[1].step = "image" /\ lastImage[1].resp.ok
\* the positions of the parts with an inline payload
InlineAt(parts) == {i \in DOMAIN parts : parts[i].inline}

\* C21: generateImageForCopy returns the data:image/png;base64 URI of the
\* first part of the image response that has an inline payload, and throws
\* "No image data found" when no part has one (an empty or missing list
\* included); handleGenerate catches what it throws, goes on to the audit,
\* and the record the cycle installs has the URI returned, or none.
C21_FirstInlineOrError ==
    /\ [](ImageAnswered =>
            LET parts == PartsOf(lastImage[1].resp.parts)
                ret == lastImage[1].ret[1]
            IN  IF InlineAt(parts) = {}
                THEN ret = Throw(NoImageData)
                ELSE \E i \in InlineAt(parts) :
                        /\ \A j \in InlineAt(parts) : i <= j
                        /\ ret = Return([scheme |-> "data:image/png;base64",
                                         data |-> parts[i].data]))
    /\ [][\A c \in DOMAIN gen :
            /\ (gen[c].pc = "imgCall" /\ GenSteps(c)) =>
                  /\ gen'[c].pc = "audit"
                  /\ lastImage' # Undefined /\ lastImage'[1].step = "image"
                  /\ gen'[c].imageUrl = IF lastImage'[1].ret[1].threw THEN Undefined
                                        ELSE Some(lastImage'[1].ret[1].value)
                  /\ lastAlert' = lastAlert
            /\ (gen[c].pc = "audit" /\ gen[c].live /\ GenReturns(c)) =>
                  /\ currentCopy' # NoCopy
                  /\ currentCopy'[1].imageUrl = gen[c].imageUrl]_vars
\* a cycle has completed without an image after an image response without
\* an inline payload
C21_Witness ==
    /\ ImageAnswered
    /\ InlineAt(PartsOf(lastImage[1].resp.parts)) = {}
    /\ lastImage[1].ret[1].threw
    /\ currentCopy # NoCopy /\ currentCopy[1].config.withImage
    /\ currentCopy[1].imageUrl = Undefined
    /\ gen = <<>>
----------------------------------------------------------------------------
(* The configuration of a record *)

\* the inputs a configuration is built from
ConfigInputs == <<globalSettings, platform, refUrl, withImage, selectedThoughtIds>>

\* C22: the configuration in a record is a snapshot.  A step that changes
\* the settings, the platform, the reference URL, the image toggle or the
\* selection leaves the configuration of the record untouched; a cycle keeps
\* the configuration it was started with whatever changes while it is in
\* flight, and that is the configuration of the record it installs.
C22_ConfigIsSnapshot ==
    [][/\ (ConfigInputs' # ConfigInputs /\ currentCopy # NoCopy /\ currentCopy' # NoCopy) =>
             currentCopy'[1].config = currentCopy[1].config
       /\ Len(gen') > Len(gen) => gen'[Len(gen')].cfg = FullConfig
       /\ \A c \in DOMAIN gen :
             /\ Len(gen') = Len(gen) => gen'[c].cfg = gen[c].cfg
             /\ (gen[c].pc = "audit" /\ gen[c].live /\ GenReturns(c)) =>
                   /\ currentCopy' # NoCopy
                   /\ currentCopy'[1].config = gen[c].cfg]_vars
\* a record whose configuration differs from the form in its platform,
\* beside a cycle in flight whose configuration differs from the form in the
\* image toggle
C22_Witness ==
    /\ currentCopy # NoCopy
    /\ currentCopy[1].config.platform # platform
    /\ \E c \in DOMAIN gen :
          /\ gen[c].live
          /\ gen[c].cfg.platform = platform
          /\ gen[c].cfg.withImage # withImage
----------------------------------------------------------------------------
(* The end of a generation cycle *)

\* Complete: the record is set and the result view shown
CycleComplete == viewState = "result" /\ currentCopy # NoCopy
\* Failed: the error is surfaced
CycleFailed == lastAlert = GenerateFailedAlert

\* C23: when every provider call is answered, a cycle that has been started
\* ends Complete, with its record set and the result view shown, or Failed,
\* with the error surfaced, and isGenerating is false again.
C23_CycleEnds ==
    (gen # <<>>) ~> ((CycleComplete \/ CycleFailed) /\ ~isGenerating)
----------------------------------------------------------------------------
(* Cycles in flight *)

\* C24: the trigger is disabled while a cycle is in flight, so that in every
\* state at most one generation cycle is in flight, tab switches included.
C24_AtMostOneCycle == Len(gen) <= 1
----------------------------------------------------------------------------
(* Properties of extractContentFromUrl *)

\* the invocation a of handleExtractUrl returns in this step
ExtractReturns(a) == a \in DOMAIN aux /\ aux[a].kind = "extract" /\ aux' = RemoveAt(aux, a)

\* C25: extractContentFromUrl never raises.  It returns the text of a 2xx
\* response and the empty string on a rejected fetch and on any other
\* status, after one request; for an empty url it returns the empty string
\* without a request.  An extraction that yields nothing leaves the preview
\* as it is, and with it the form, the record and the cycles in flight.
C25_ExtractNeverRaises ==
    /\ [](/\ lastExtract # Undefined =>
               /\ ~lastExtract[1].ret.threw
               /\ lastExtract[1].requests = 1
               /\ lastExtract[1].ret.value =
                     IF lastExtract[1].ans.kind = "response"
                        /\ lastExtract[1].ans.status \in OkStatuses
                     THEN lastExtract[1].ans.text ELSE <<>>
           /\ \A ans \in ExtractAnswers :
                 extractContentFromUrl("", ans) = Outcome(Return(<<>>), 0))
    /\ [][\A a \in DOMAIN aux :
            (ExtractReturns(a) /\ lastExtract'[1].ret.value = <<>>) =>
                /\ lastAlert' = ExtractFailedAlert
                /\ UNCHANGED <<previewContent, platform, refUrl, withImage, tabVars, gen,
                               appVars>>]_vars
\* an extraction has failed on a status that is not 2xx beside a draft, and
\* a cycle has been started on that draft afterwards
C25_Witness ==
    /\ lastExtract # Undefined
    /\ lastExtract[1].ans.kind = "response" /\ lastExtract[1].ans.status \notin OkStatuses
    /\ lastExtract[1].ret = Return(<<>>)
    /\ lastAlert = ExtractFailedAlert
    /\ previewContent = <<"d">>
    /\ \E c \in DOMAIN gen : gen[c].live /\ gen[c].request.baseContent = <<"d">>
----------------------------------------------------------------------------
(* The fragments of a request *)

\* the positions in the fragment list of the fragments with a selected id
SelectedAt(config) ==
    {i \in DOMAIN thoughts : thoughts[i].id \in SeqToSet(config.selectedThoughtIds)}
\* the k-th of them
NthSelected(config, k) ==
    CHOOSE i \in SelectedAt(config) : Cardinality({j \in SelectedAt(config) : j <= i}) = k

\* C26: when a cycle is started without a draft that is not blank, the
\* content source of its request lists exactly the fragments with a selected
\* id, once each, in the order of the fragment list, each with its content
\* and its tags; a selected id that no fragment has adds nothing.
C26_ExactlySelectedFragments ==
    /\ [][Len(gen') > Len(gen) =>
            LET r == gen'[Len(gen')].request
                f == r.prompt.source.fragments
                cfg == gen'[Len(gen')].cfg
            IN  ~HasDraft(r.baseContent) =>
                  /\ r.prompt.source.kind = "fragments"
                  /\ Len(f) = Cardinality(SelectedAt(cfg))
                  /\ \A k \in DOMAIN f :
                        /\ f[k].content = thoughts[NthSelected(cfg, k)].content
                        /\ f[k].tags = thoughts[NthSelected(cfg, k)].tags]_vars
    /\ [](SelectedFragments([selectedThoughtIds |-> Append(selectedThoughtIds, 0)], thoughts)
            = SelectedFragments([selectedThoughtIds |-> selectedThoughtIds], thoughts))
\* a cycle was started without a draft on two fragments selected in the
\* reverse of their order in the list
C26_Witness ==
    /\ Len(thoughts) = 2
    /\ selectedThoughtIds = <<thoughts[2].id, thoughts[1].id>>
    /\ \E c \in DOMAIN gen :
          /\ gen[c].cfg.selectedThoughtIds = selectedThoughtIds
          /\ gen[c].request.prompt.source.kind = "fragments"
          /\ Len(gen[c].request.prompt.source.fragments) = 2
          /\ gen[c].request.prompt.source.fragments[1].content = thoughts[1].content
----------------------------------------------------------------------------
(* The prompt of the image call *)

\* C27: when the prompt-derivation call of generateImageForCopy resolves
\* without text, the image call is still made, with the generic prompt
\* naming the niche; with text, it is made with that text; when the call
\* rejects, generateImageForCopy fails and makes no image call.
C27_GenericPromptFallback ==
    [][\A c \in DOMAIN gen :
         (gen[c].pc = "imgPrompt" /\ GenSteps(c)) =>
            LET o == lastImage'[1]
                t == gen'[c]
            IN  /\ o.step = "prompt"
                /\ IF o.resp.ok
                   THEN /\ t.pc = "imgCall" /\ t.calls[Len(t.calls)] = "image"
                        /\ o.call = Some(t.imagePrompt)
                        /\ o.ret = Undefined
                        /\ t.imagePrompt =
                              IF o.resp.text = Undefined \/ o.resp.text = Some("")
                              THEN [template |-> "A high quality aesthetic photo for",
                                    niche |-> gen[c].cfg.niche]
                              ELSE [template |-> o.resp.text[1], niche |-> ""]
                   ELSE /\ o.ret # Undefined /\ o.ret[1].threw
                        /\ o.call = Undefined
                        /\ t.pc = "audit" /\ t.failed = "image"
                        /\ \A i \in DOMAIN t.calls : t.calls[i] # "image"]_vars
\* the image call is in flight with the generic prompt for the food niche
\* after a prompt-derivation response without text
C27_Witness ==
    /\ lastImage # Undefined /\ lastImage[1].step = "prompt"
    /\ lastImage[1].resp = Resolved(Undefined)
    /\ \E c \in DOMAIN gen :
          /\ gen[c].pc = "imgCall"
          /\ gen[c].cfg.niche = NicheFOOD
          /\ lastImage[1].call = Some(gen[c].imagePrompt)
          /\ gen[c].imagePrompt.niche = NicheFOOD
----------------------------------------------------------------------------
(* A re-audit beside a generation cycle *)

\* C28: a re-audit never overwrites a newer record.  When a re-audit that
\* was started on one record completes while the current record is another,
\* installed by a cycle in the meantime, the current record stays as it is.
C28_ReAuditKeepsNewerRecord ==
    [][\A r \in DOMAIN reaud :
         ( /\ ReAuditReturns(r) /\ reaud[r].live
           /\ currentCopy # NoCopy
           /\ currentCopy[1].id # reaud[r].copy.id ) =>
            currentCopy' = currentCopy]_vars
----------------------------------------------------------------------------
(* The platform of an audit *)

\* C29: every audit of a record is made for the platform the record was
\* generated for: the platform passed to the audit call of a re-audit is the
\* platform in the configuration of the record it is started on.
C29_ReAuditPlatformOfRecord ==
    \A r \in DOMAIN reaud : reaud[r].auditPlatform = reaud[r].copy.config.platform
====
